---- MODULE Spec2Model ----
(***************************************************************************)
(* Model of src/app.py, a Streamlit script.  Every user interaction        *)
(* re-runs the script top to bottom with exactly one widget "fired"; the   *)
(* values in st.session_state and the values held by the input widgets     *)
(* survive from one run to the next.  A run is suspended only while it     *)
(* waits for the remote service: between two status polls of               *)
(* process_video and between two fragments of a streamed response.         *)
(*                                                                         *)
(* Text is a sequence of tokens, "" is << >>.  A Python optional is a      *)
(* sequence of length at most one: None is << >>, a value x is <<x>>.      *)
(***************************************************************************)
EXTENDS Integers, Sequences, FiniteSets, TLC

VARIABLES
    api_key,            \* sidebar text input (line 49): TRUE iff non-empty
    cam_image,          \* st.camera_input value (line 142), optional
    up_image,           \* image st.file_uploader value (line 149), optional
    up_video,           \* video st.file_uploader value (line 157), optional
    messages,           \* st.session_state.messages
    analysis_context,   \* st.session_state.analysis_context, optional text
    current_file,       \* st.session_state.current_file, optional handle
    last_image,         \* st.session_state.get('last_image'), optional image
    fs,                 \* temporary files present on the local filesystem
    pc,                 \* where the running script is suspended, or "idle"
    run                 \* locals and rendered output of the current script run

vars == <<api_key, cam_image, up_image, up_video, messages, analysis_context,
          current_file, last_image, fs, pc, run>>

widgets == <<api_key, cam_image, up_image, up_video>>

session == <<messages, analysis_context, current_file, last_image>>

----------------------------------------------------------------------------
(* Bounds of the model *)

MaxMsgs == 4

MaxFragments == 2

MaxPolls == 2

MaxFiles == 2

----------------------------------------------------------------------------
(* Values *)

None == << >>

Some(x) == <<x>>

(* The handlers never inspect the text of a fragment, only append it: the   *)
(* k-th fragment of a stream is the one-token text fk.                      *)
Fragment(k) == <<"f" \o ToString(k)>>

Questions == { <<"q">> }

Marker == <<"|">>

AnalyzePrompt == <<"Analyze this experiment visual.">>

ErrorPrefix == "Error: "

Status == {"PROCESSING", "ACTIVE", "FAILED"}

Raise == "raise"

ImageOpen(f) == [image |-> f]

Truthy(opt) == opt # None /\ opt[1] # << >>

Msg(r, c) == [role |-> r, content |-> c]

Markdown(t) == [kind |-> "markdown", text |-> t]

ErrorBox(t) == [kind |-> "error", text |-> t]

EmptyBox == [kind |-> "empty", text |-> << >>]

NoNotice == [kind |-> "none", text |-> ""]

Error(t) == [kind |-> "error", text |-> t]

Warning(t) == [kind |-> "warning", text |-> t]

NewRun(h) ==
    [handler |-> h, notice |-> NoNotice, uncaught |-> FALSE, raised |-> FALSE,
     calls |-> {}, placeholder |-> EmptyBox, full_response |-> << >>,
     fragments |-> << >>, history |-> << >>, content_to_send |-> None,
     tmp_path |-> None, statuses |-> << >>, waits |-> 0, returned |-> None,
     report |-> None]

Init ==
    /\ api_key = FALSE
    /\ cam_image = None
    /\ up_image = None
    /\ up_video = None
    /\ messages = << >>
    /\ analysis_context = None
    /\ current_file = None
    /\ last_image = None
    /\ fs = {}
    /\ pc = "idle"
    /\ run = NewRun("load")

----------------------------------------------------------------------------
(* Input widgets: a change re-runs the script with no button fired, which   *)
(* touches no session state.                                                *)

SetApiKey ==
    /\ pc = "idle"
    /\ api_key' = ~api_key
    /\ run' = NewRun("input")
    /\ UNCHANGED <<cam_image, up_image, up_video, session, fs, pc>>

SetCamImage ==
    /\ pc = "idle"
    /\ cam_image' = IF cam_image = None THEN Some("cam") ELSE None
    /\ run' = NewRun("input")
    /\ UNCHANGED <<api_key, up_image, up_video, session, fs, pc>>

SetUpImage ==
    /\ pc = "idle"
    /\ up_image' = IF up_image = None THEN Some("img") ELSE None
    /\ run' = NewRun("input")
    /\ UNCHANGED <<api_key, cam_image, up_video, session, fs, pc>>

SetUpVideo ==
    /\ pc = "idle"
    /\ up_video' = IF up_video = None THEN Some("vid") ELSE None
    /\ run' = NewRun("input")
    /\ UNCHANGED <<api_key, cam_image, up_image, session, fs, pc>>

(* input_content / input_type of a run in which "Process Video" is not fired *)
InputContent ==
    IF up_image # None THEN Some(ImageOpen(up_image[1]))
    ELSE IF cam_image # None THEN Some(ImageOpen(cam_image[1]))
    ELSE None

InputType == IF up_image # None \/ cam_image # None THEN Some("image") ELSE None

----------------------------------------------------------------------------
(* Clear Session button *)

ClearSession ==
    /\ pc = "idle"
    /\ messages' = << >>
    /\ analysis_context' = None
    /\ current_file' = None
    /\ run' = NewRun("clear")
    /\ UNCHANGED <<widgets, last_image, fs, pc>>

----------------------------------------------------------------------------
(* process_video, called by the Process Video button *)

(* a loop that waits for every status but the ready one *)
ShouldWait_mut(state) == state # "ACTIVE"

ShouldWait(state) == state = "PROCESSING"

ProcessingFailed(state) == state = "FAILED"

FreshTmp == CHOOSE p \in 1..MaxFiles : p \notin fs

(* What process_video does with the outcome of upload_file / get_file:      *)
(* r is the run so far, files the temporary files on disk, out the status   *)
(* the remote reports, or Raise.                                            *)
VideoStatus(r, files, out) ==
    IF out = Raise
    THEN /\ run' = [r EXCEPT !.raised = TRUE, !.uncaught = TRUE]
         /\ pc' = "idle"
         /\ fs' = files
         /\ UNCHANGED current_file
    ELSE LET s == [r EXCEPT !.statuses = Append(@, out)] IN
         IF ShouldWait(out)
         THEN /\ run' = s
              /\ pc' = "polling"
              /\ fs' = files
              /\ UNCHANGED current_file
         ELSE IF ProcessingFailed(out)
         THEN /\ run' = [s EXCEPT !.notice = Error("Video processing failed."),
                                  !.returned = None]
              /\ current_file' = None
              /\ pc' = "idle"
              /\ fs' = files
         ELSE /\ fs' = files \ {r.tmp_path[1]}
              /\ run' = [s EXCEPT !.returned =
                            Some([name |-> up_video[1], state |-> out])]
              /\ current_file' = Some([name |-> up_video[1], state |-> out])
              /\ pc' = "idle"

(* Process Video button: NamedTemporaryFile, then genai.upload_file *)
ProcessVideo ==
    /\ pc = "idle"
    /\ up_video # None
    /\ Cardinality(fs) < MaxFiles
    /\ \E out \in Status \cup {Raise} :
         VideoStatus([NewRun("process_video") EXCEPT
                         !.tmp_path = Some(FreshTmp),
                         !.calls = {"upload_file"}],
                     fs \cup {FreshTmp}, out)
    /\ UNCHANGED <<widgets, messages, analysis_context, last_image>>

(* One turn of the wait loop: time.sleep(2), then genai.get_file.  After    *)
(* MaxPolls waits the remote is taken to answer with a terminal status.     *)
PollVideo ==
    /\ pc = "polling"
    /\ run.waits < MaxPolls
    /\ \E out \in (IF run.waits + 1 < MaxPolls THEN Status
                   ELSE Status \ {"PROCESSING"}) \cup {Raise} :
         VideoStatus([run EXCEPT !.waits = @ + 1,
                                 !.calls = @ \cup {"get_file"}],
                     fs, out)
    /\ UNCHANGED <<widgets, messages, analysis_context, last_image>>

----------------------------------------------------------------------------
(* Streaming text accumulation, shared by the two streaming handlers *)

(* a fragment put in front of the text so far *)
Accumulate_mut(full_response, text) == text \o full_response

Accumulate(full_response, text) == full_response \o text

Live(full_response) == Markdown(full_response \o Marker)

Consume(r, text) ==
    [r EXCEPT !.fragments = Append(@, text),
              !.full_response = Accumulate(@, text),
              !.placeholder = Live(Accumulate(r.full_response, text))]

----------------------------------------------------------------------------
(* Analyze Experiment button *)

FinalContent == IF InputContent # None THEN InputContent ELSE current_file

Analyze ==
    /\ pc = "idle"
    /\ IF ~api_key
       THEN /\ run' = [NewRun("analyze") EXCEPT !.notice =
                          Error("Please enter your API Key in the sidebar.")]
            /\ UNCHANGED <<last_image, pc>>
       ELSE IF InputContent = None /\ current_file = None
       THEN /\ run' = [NewRun("analyze") EXCEPT !.notice =
                          Warning("Please provide an image or video first.")]
            /\ UNCHANGED <<last_image, pc>>
       ELSE /\ Len(messages) + 2 <= MaxMsgs
            /\ last_image' = IF InputType = Some("image") THEN FinalContent
                             ELSE None
            /\ \E out \in {"stream", Raise} :
                 IF out = Raise
                 THEN /\ run' = [NewRun("analyze") EXCEPT
                                    !.calls = {"generate_content"},
                                    !.raised = TRUE,
                                    !.notice = Error("Analysis failed")]
                      /\ pc' = "idle"
                 ELSE /\ run' = [NewRun("analyze") EXCEPT
                                    !.calls = {"generate_content"}]
                      /\ pc' = "analyzing"
    /\ UNCHANGED <<widgets, messages, analysis_context, current_file, fs>>

(* for chunk in response: the stream yields one more fragment *)
AnalyzeChunk ==
    /\ pc = "analyzing"
    /\ Len(run.fragments) < MaxFragments
    /\ run' = Consume(run, Fragment(Len(run.fragments) + 1))
    /\ UNCHANGED <<widgets, session, fs, pc>>

(* the stream ends: final render, then the transcript and context are set *)
AnalyzeEnd ==
    /\ pc = "analyzing"
    /\ run' = [run EXCEPT !.placeholder = Markdown(run.full_response)]
    /\ messages' = Append(Append(messages, Msg("user", AnalyzePrompt)),
                          Msg("assistant", run.full_response))
    /\ analysis_context' = Some(run.full_response)
    /\ pc' = "idle"
    /\ UNCHANGED <<widgets, current_file, last_image, fs>>

(* the stream raises: caught by the except clause of the handler *)
AnalyzeRaise ==
    /\ pc = "analyzing"
    /\ run' = [run EXCEPT !.raised = TRUE, !.notice = Error("Analysis failed")]
    /\ pc' = "idle"
    /\ UNCHANGED <<widgets, session, fs>>

----------------------------------------------------------------------------
(* get_gemini_response and the follow-up chat input *)

(* the stored role passed through unmapped *)
HistoryRole_mut(role) == role

HistoryRole(role) == IF role = "user" THEN "user" ELSE "model"

History(msgs) ==
    [i \in 1..Len(msgs) |->
        [role |-> HistoryRole(msgs[i].role), parts |-> <<msgs[i].content>>]]

FollowUp ==
    /\ pc = "idle"
    /\ IF ~api_key
       THEN /\ run' = [NewRun("followup") EXCEPT !.notice =
                          Error("API Key required.")]
            /\ UNCHANGED <<messages, pc>>
       ELSE /\ Len(messages) + 2 <= MaxMsgs
            /\ \E prompt \in Questions, out \in {"stream", Raise} :
                 LET asked == Append(messages, Msg("user", prompt))
                     r == [NewRun("followup") EXCEPT
                              !.history = History(asked),
                              !.content_to_send = last_image,
                              !.calls = {"send_message"}]
                 IN  IF out = Raise
                     THEN /\ run' = [r EXCEPT
                                !.raised = TRUE,
                                !.placeholder = ErrorBox(<<ErrorPrefix, "e">>)]
                          /\ messages' = Append(asked,
                                Msg("assistant", r.full_response))
                          /\ pc' = "idle"
                     ELSE /\ run' = r
                          /\ messages' = asked
                          /\ pc' = "answering"
    /\ UNCHANGED <<widgets, analysis_context, current_file, last_image, fs>>

(* for chunk in resp_stream: the stream yields one more fragment *)
FollowUpChunk ==
    /\ pc = "answering"
    /\ Len(run.fragments) < MaxFragments
    /\ run' = Consume(run, Fragment(Len(run.fragments) + 1))
    /\ UNCHANGED <<widgets, session, fs, pc>>

(* the stream ends: final render, then the answer is appended *)
FollowUpEnd ==
    /\ pc = "answering"
    /\ run' = [run EXCEPT !.placeholder = Markdown(run.full_response)]
    /\ messages' = Append(messages, Msg("assistant", run.full_response))
    /\ pc' = "idle"
    /\ UNCHANGED <<widgets, analysis_context, current_file, last_image, fs>>

(* the stream raises: no try around the loop, the script run is aborted *)
FollowUpRaise ==
    /\ pc = "answering"
    /\ run' = [run EXCEPT !.raised = TRUE, !.uncaught = TRUE]
    /\ pc' = "idle"
    /\ UNCHANGED <<widgets, session, fs>>

----------------------------------------------------------------------------
(* Generate Official Lab Report button *)

(* an "is None" test in place of the truthiness test *)
ContextMissing_mut(context) == context = None

ContextMissing(context) == ~Truthy(context)

Report ==
    /\ pc = "idle"
    /\ IF ContextMissing(analysis_context)
       THEN run' = [NewRun("report") EXCEPT !.notice =
               Warning("Please analyze an experiment first to generate a report.")]
       ELSE \E out \in {"text", Raise} :
               IF out = Raise
               THEN run' = [NewRun("report") EXCEPT
                               !.calls = {"generate_content"},
                               !.raised = TRUE, !.uncaught = TRUE]
               ELSE run' = [NewRun("report") EXCEPT
                               !.calls = {"generate_content"},
                               !.report = Some(<<"report">>)]
    /\ UNCHANGED <<widgets, session, fs, pc>>

----------------------------------------------------------------------------

Next ==
    \/ SetApiKey
    \/ SetCamImage
    \/ SetUpImage
    \/ SetUpVideo
    \/ ClearSession
    \/ ProcessVideo
    \/ PollVideo
    \/ Analyze
    \/ AnalyzeChunk
    \/ AnalyzeEnd
    \/ AnalyzeRaise
    \/ FollowUp
    \/ FollowUpChunk
    \/ FollowUpEnd
    \/ FollowUpRaise
    \/ Report

Spec == Init /\ [][Next]_vars

----------------------------------------------------------------------------
(* Properties *)

RECURSIVE Concat(_)
Concat(texts) ==
    IF texts = << >> THEN << >> ELSE Head(texts) \o Concat(Tail(texts))

RECURSIVE CountProcessing(_)
CountProcessing(statuses) ==
    IF statuses = << >> THEN 0
    ELSE (IF Head(statuses) = "PROCESSING" THEN 1 ELSE 0)
         + CountProcessing(Tail(statuses))

IsErrorIndicator(text) == text # << >> /\ text[1] = ErrorPrefix

LastMessage == messages[Len(messages)]

(* C1: once a run of process_video has ended, on whatever exit path, the    *)
(* temporary file it created is no longer on the filesystem.                *)
C1_TempFileDeleted ==
    (run.handler = "process_video" /\ pc = "idle")
        => run.tmp_path[1] \notin fs

(* C2: when the remote call of an analysis or of a follow-up raises, the    *)
(* message stored for that response is an error indicator (for the          *)
(* analysis, an error is shown in its place) and the partial text is not    *)
(* the stored answer.                                                       *)
C2_ErrorStoredNotPartial ==
    (pc = "idle" /\ run.raised) =>
        /\ run.handler = "followup" =>
              /\ messages # << >>
              /\ LastMessage.role = "assistant"
              /\ IsErrorIndicator(LastMessage.content)
        /\ run.handler = "analyze" => run.notice.kind = "error"

(* C3: a run of process_video that ends on a terminal status has waited     *)
(* once per "processing" status reported before it; on the ready status it  *)
(* returns the handle, on the failed status it reports the failure and      *)
(* returns no handle.                                                       *)
C3_WaitsMatchProcessing ==
    (run.handler = "process_video" /\ pc = "idle" /\ ~run.raised) =>
        LET n == Len(run.statuses) IN
        /\ n >= 1
        /\ \A i \in 1..(n - 1) : run.statuses[i] = "PROCESSING"
        /\ run.statuses[n] # "PROCESSING"
        /\ run.waits = CountProcessing(run.statuses)
        /\ run.waits = n - 1
        /\ run.statuses[n] = "FAILED" =>
              /\ run.returned = None
              /\ current_file = None
              /\ run.notice = Error("Video processing failed.")
        /\ run.statuses[n] = "ACTIVE" =>
              /\ run.returned = Some([name |-> "vid", state |-> "ACTIVE"])
              /\ current_file = run.returned
              /\ run.notice = NoNotice

C3_Witness ==
    /\ run.handler = "process_video"
    /\ pc = "idle"
    /\ run.statuses = <<"PROCESSING", "PROCESSING", "ACTIVE">>
    /\ run.waits = 2
    /\ run.returned # None

(* C4: while a stream is consumed, what is displayed after k >= 1 fragments *)
(* is f1+..+fk followed by the marker; when it ends without error the       *)
(* display and the stored assistant message are f1+..+fn without the        *)
(* marker, the empty text for n = 0, and no error is reported.              *)
C4_StreamConcatenation ==
    /\ (pc \in {"analyzing", "answering"} /\ run.fragments # << >>) =>
          run.placeholder = Markdown(Concat(run.fragments) \o Marker)
    /\ (pc = "idle" /\ run.handler \in {"analyze", "followup"}
          /\ run.calls # {} /\ ~run.raised) =>
          /\ run.placeholder = Markdown(Concat(run.fragments))
          /\ messages # << >>
          /\ LastMessage = Msg("assistant", Concat(run.fragments))
          /\ run.notice = NoNotice
          /\ ~run.uncaught
          /\ run.handler = "analyze" =>
                /\ analysis_context = Some(Concat(run.fragments))
                /\ messages[Len(messages) - 1] = Msg("user", AnalyzePrompt)

C4_Witness ==
    /\ pc = "idle"
    /\ run.handler = "followup"
    /\ ~run.raised
    /\ run.fragments = << <<"f1">>, <<"f2">> >>
    /\ LastMessage.content = <<"f1", "f2">>

(* C5: the history handed to the remote chat by a follow-up is the stored   *)
(* transcript as it stood at the call, entry by entry: user stays user,     *)
(* assistant becomes model, the content is unchanged.                       *)
C5_HistoryReplay ==
    (run.handler = "followup" /\ run.calls # {}) =>
        LET answered == IF pc = "idle" /\ ~run.uncaught THEN 1 ELSE 0 IN
        /\ Len(run.history) = Len(messages) - answered
        /\ \A i \in 1..Len(run.history) :
              /\ messages[i].role = "user" => run.history[i].role = "user"
              /\ messages[i].role = "assistant" =>
                    run.history[i].role = "model"
              /\ run.history[i].role \in {"user", "model"}
              /\ run.history[i].parts = <<messages[i].content>>

C5_Witness ==
    /\ run.handler = "followup"
    /\ pc = "answering"
    /\ Len(run.history) = 3
    /\ run.history[1].role = "user"
    /\ run.history[2].role = "model"
    /\ run.history[3] = [role |-> "user", parts |-> << <<"q">> >>]

(* C6: a report requested while the analysis context is None or the empty   *)
(* text shows a warning, makes no remote call and produces no report, and   *)
(* the step leaves the transcript and the analysis context as they were.    *)
C6_ReportWithoutContext ==
    /\ [](( run.handler = "report"
            /\ (analysis_context = None \/ analysis_context = Some(<< >>)) ) =>
             /\ run.notice.kind = "warning"
             /\ run.calls = {}
             /\ run.report = None
             /\ ~run.raised)
    /\ [][run'.handler = "report" =>
             /\ messages' = messages
             /\ analysis_context' = analysis_context]_vars

C6_Witness ==
    /\ run.handler = "report"
    /\ analysis_context = Some(<< >>)
    /\ messages # << >>
    /\ run.notice.kind = "warning"

(* C7: whenever a remote call has failed, the failure was caught and an     *)
(* error message is shown; the script run was not aborted by it.            *)
C7_AllFailuresCaught ==
    run.raised =>
        /\ ~run.uncaught
        /\ run.notice.kind = "error" \/ run.placeholder.kind = "error"

(* C8: the stored video handle and the stored image are never both set.     *)
C8_AtMostOneAsset == ~(current_file # None /\ last_image # None)

(* C9: right after Clear Session the transcript is empty, the analysis      *)
(* context is absent and neither a video handle nor an image is stored.     *)
C9_ClearResetsAll ==
    run.handler = "clear" =>
        /\ messages = << >>
        /\ analysis_context = None
        /\ current_file = None
        /\ last_image = None

(* C10: the transcript alternates user, assistant, user, ... from a user    *)
(* message on.                                                              *)
C10_Alternates ==
    \A i \in 1..Len(messages) :
        messages[i].role = IF i % 2 = 1 THEN "user" ELSE "assistant"

====
